---- MODULE Spec2Model ----
(***************************************************************************)
(* Model of cpl-rust's SegmentTree (src/data_structure/segment_tree.rs):   *)
(* a complete binary tree in a flat vector `node` of length 2n, where n is *)
(* the capacity (the requested size rounded up to a power of two), with a  *)
(* caller-supplied operation `op` and identity `id`.                       *)
(***************************************************************************)
EXTENDS Integers, Sequences, FiniteSets, TLC

\* Largest size requested at construction (new's n, from_slice's slice.len()).
MaxN == 3
\* Largest element value; also the number of letters of the concatenation monoid.
MaxVal == 2
\* Longest slice searched by bisect_left / bisect_right.
MaxLen == 3
\* Number of elements of the DisjointSet.
MaxElems == 4
\* Largest number of elements held by the MultiSet (insert is not called beyond it).
MaxMsLen == 4

(***************************************************************************)
(* The (op, id) pairs the tree is instantiated with: i32 addition with 0,  *)
(* std::cmp::min with the largest value, and concatenation of sequences    *)
(* with the empty sequence (associative, not commutative).                 *)
(***************************************************************************)
OpKinds == {"sum", "min", "concat"}

Values(k) ==
    IF k = "concat" THEN {<<>>} \cup {<<c>> : c \in 1..MaxVal}
    ELSE 0..MaxVal

\* (self.id)()
Identity(k) ==
    CASE k = "sum" -> 0
      [] k = "min" -> MaxVal
      [] k = "concat" -> <<>>

\* (self.op)(a, b)
Operation(k, a, b) ==
    CASE k = "sum" -> a + b
      [] k = "min" -> IF a <= b THEN a ELSE b
      [] k = "concat" -> a \o b

\* Option<usize>: None is <<>>, Some(v) is <<v>>.
None == <<>>
Some(v) == <<v>>
\* Variant: unwrap_or_default() in place of unwrap_or(d).
UnwrapOrDefault(o, d) == IF o = None THEN 0 ELSE o[1]

UnwrapOr(o, d) == IF o = None THEN d ELSE o[1]

\* Variant: the smallest power of two strictly greater than x.
RECURSIVE Pow2FromStrict(_, _)
Pow2FromStrict(p, x) == IF p > x THEN p ELSE Pow2FromStrict(2 * p, x)

\* usize::next_power_of_two: the smallest power of two >= x (1 for x = 0).
RECURSIVE Pow2From(_, _)
Pow2From(p, x) == IF p >= x THEN p ELSE Pow2From(2 * p, x)

NextPowerOfTwo(x) == Pow2From(1, x)

\* SegmentTree::new: n = n.next_power_of_two(); node = vec![id(); n << 1].
New(size, k) ==
    LET cap == NextPowerOfTwo(size)
    IN  [n |-> cap, node |-> [i \in 0..(2 * cap - 1) |-> Identity(k)]]

\* from_slice, first loop: tree.node[i + tree.n] = x for (i, x) in the slice.
RECURSIVE WriteLeaves(_, _, _, _)
WriteLeaves(nd, cap, slice, i) ==
    IF i > Len(slice) THEN nd
    ELSE WriteLeaves([nd EXCEPT ![(i - 1) + cap] = slice[i]], cap, slice, i + 1)

\* Variant: the right child is read as node[i << 1], without the | 1.
RECURSIVE BuildInternalLeftChildTwice(_, _, _)
BuildInternalLeftChildTwice(nd, k, i) ==
    IF i < 1 THEN nd
    ELSE BuildInternalLeftChildTwice(
            [nd EXCEPT ![i] = Operation(k, nd[2 * i], nd[2 * i])], k, i - 1)

\* from_slice, second loop: for i in (1..tree.n).rev(), node[i] = op(node[2i], node[2i+1]).
RECURSIVE BuildInternal(_, _, _)
BuildInternal(nd, k, i) ==
    IF i < 1 THEN nd
    ELSE BuildInternal(
            [nd EXCEPT ![i] = Operation(k, nd[2 * i], nd[2 * i + 1])], k, i - 1)

\* SegmentTree::from_slice
FromSlice(slice, k) ==
    LET t == New(Len(slice), k)
        leaves == WriteLeaves(t.node, t.n, slice, 1)
    IN  [n |-> t.n, node |-> BuildInternal(leaves, k, t.n - 1)]

\* Variant: the upward walk stops below the root (while i > 2).
RECURSIVE UpdateWalkSkipsRoot(_, _, _)
UpdateWalkSkipsRoot(nd, k, i) ==
    IF i > 2
    THEN LET j == i \div 2
         IN  UpdateWalkSkipsRoot(
                [nd EXCEPT ![j] = Operation(k, nd[2 * j], nd[2 * j + 1])], k, j)
    ELSE nd

\* update's loop: while i > 1 { i >>= 1; node[i] = op(node[i << 1], node[i << 1 | 1]) }
RECURSIVE UpdateWalk(_, _, _)
UpdateWalk(nd, k, i) ==
    IF i > 1
    THEN LET j == i \div 2
         IN  UpdateWalk([nd EXCEPT ![j] = Operation(k, nd[2 * j], nd[2 * j + 1])], k, j)
    ELSE nd

\* Variant: the leaf is written at node[i], without the offset self.n.
UpdateOutcomeNoOffset(nd, cap, k, i, x) ==
    IF i < cap
    THEN [panic |-> FALSE,
          node |-> UpdateWalk([nd EXCEPT ![i] = x], k, i + cap)]
    ELSE [panic |-> TRUE, node |-> nd]

\* Variant: the value is written to the leaf's sibling ((i + n) ^ 1).
UpdateOutcomeWritesSibling(nd, cap, k, i, x) ==
    IF i < cap
    THEN LET leaf == i + cap
             sibling == IF leaf % 2 = 0 THEN leaf + 1 ELSE leaf - 1
         IN  [panic |-> FALSE,
              node |-> UpdateWalk([nd EXCEPT ![sibling] = x], k, leaf)]
    ELSE [panic |-> TRUE, node |-> nd]

\* Variant: the index is masked into the leaf range (i & (n - 1)) instead of asserted.
UpdateOutcomeMasked(nd, cap, k, i, x) ==
    [panic |-> FALSE,
     node |-> UpdateWalk([nd EXCEPT ![(i % cap) + cap] = x], k, (i % cap) + cap)]

\* SegmentTree::update: assert!(i < self.n), write the leaf, recompute the ancestors.
UpdateOutcome(nd, cap, k, i, x) ==
    IF i < cap
    THEN [panic |-> FALSE,
          node |-> UpdateWalk([nd EXCEPT ![i + cap] = x], k, i + cap)]
    ELSE [panic |-> TRUE, node |-> nd]

\* Variant: the leaf is read at node[i], without the offset self.n.
IndexOutcomeNoOffset(nd, cap, i) ==
    IF i < cap
    THEN [panic |-> FALSE, ret |-> <<nd[i]>>]
    ELSE [panic |-> TRUE, ret |-> <<>>]

\* Variant: the index is masked into the leaf range instead of asserted.
IndexOutcomeMasked(nd, cap, i) ==
    [panic |-> FALSE, ret |-> <<nd[(i % cap) + cap]>>]

\* Index::index: assert!(i < self.n); &self.node[i + self.n].
IndexOutcome(nd, cap, i) ==
    IF i < cap
    THEN [panic |-> FALSE, ret |-> <<nd[i + cap]>>]
    ELSE [panic |-> TRUE, ret |-> <<>>]

\* Variant: the right node is appended to res_r (op(res_r, node[r])), not prepended.
QueryStepAppendsRight(nd, k, s) ==
    LET a == IF s.l % 2 = 1
             THEN [l |-> s.l + 1, res_l |-> Operation(k, s.res_l, nd[s.l])]
             ELSE [l |-> s.l, res_l |-> s.res_l]
        b == IF s.r % 2 = 1
             THEN [r |-> s.r - 1, res_r |-> Operation(k, s.res_r, nd[s.r - 1])]
             ELSE [r |-> s.r, res_r |-> s.res_r]
    IN  [l |-> a.l \div 2, r |-> b.r \div 2, res_l |-> a.res_l, res_r |-> b.res_r]

\* Variant: the right node is read before r is decremented (node[r], then r -= 1).
QueryStepReadsBeforeDecrement(nd, k, s) ==
    LET a == IF s.l % 2 = 1
             THEN [l |-> s.l + 1, res_l |-> Operation(k, s.res_l, nd[s.l])]
             ELSE [l |-> s.l, res_l |-> s.res_l]
        b == IF s.r % 2 = 1
             THEN [r |-> s.r - 1, res_r |-> Operation(k, nd[s.r], s.res_r)]
             ELSE [r |-> s.r, res_r |-> s.res_r]
    IN  [l |-> a.l \div 2, r |-> b.r \div 2, res_l |-> a.res_l, res_r |-> b.res_r]

\* Variant: the left branch lacks l += 1.
QueryStepKeepsLeft(nd, k, s) ==
    LET a == IF s.l % 2 = 1
             THEN [l |-> s.l, res_l |-> Operation(k, s.res_l, nd[s.l])]
             ELSE [l |-> s.l, res_l |-> s.res_l]
        b == IF s.r % 2 = 1
             THEN [r |-> s.r - 1, res_r |-> Operation(k, nd[s.r - 1], s.res_r)]
             ELSE [r |-> s.r, res_r |-> s.res_r]
    IN  [l |-> a.l \div 2, r |-> b.r \div 2, res_l |-> a.res_l, res_r |-> b.res_r]

\* One iteration of query's while loop over the locals l, r, res_l, res_r.
QueryStep(nd, k, s) ==
    LET a == IF s.l % 2 = 1
             THEN [l |-> s.l + 1, res_l |-> Operation(k, s.res_l, nd[s.l])]
             ELSE [l |-> s.l, res_l |-> s.res_l]
        b == IF s.r % 2 = 1
             THEN [r |-> s.r - 1, res_r |-> Operation(k, nd[s.r - 1], s.res_r)]
             ELSE [r |-> s.r, res_r |-> s.res_r]
    IN  [l |-> a.l \div 2, r |-> b.r \div 2, res_l |-> a.res_l, res_r |-> b.res_r]

\* Variant: the loop body runs once before the condition is tested (do-while).
RECURSIVE QueryLoopDoWhile(_, _, _)
QueryLoopDoWhile(nd, k, s) ==
    LET t == QueryStep(nd, k, s)
    IN  IF t.l < t.r THEN QueryLoopDoWhile(nd, k, t) ELSE t

\* query's loop: while l < r { ... }
RECURSIVE QueryLoop(_, _, _)
QueryLoop(nd, k, s) ==
    IF s.l < s.r THEN QueryLoop(nd, k, QueryStep(nd, k, s)) ELSE s

\* Variant: the assertion lacks l <= r.
QueryOutcomeNoOrderCheck(nd, cap, k, left, right) ==
    LET l == UnwrapOr(left, 0) + cap
        r == UnwrapOr(right, cap) + cap
        len == 2 * cap
    IN  IF l <= len /\ r <= len
        THEN LET s == QueryLoop(nd, k,
                        [l |-> l, r |-> r, res_l |-> Identity(k), res_r |-> Identity(k)])
             IN  [panic |-> FALSE, ret |-> <<Operation(k, s.res_l, s.res_r)>>]
        ELSE [panic |-> TRUE, ret |-> <<>>]

\* SegmentTree::query
QueryOutcome(nd, cap, k, left, right) ==
    LET l == UnwrapOr(left, 0) + cap
        r == UnwrapOr(right, cap) + cap
        len == 2 * cap
    IN  IF l <= r /\ l <= len /\ r <= len
        THEN LET s == QueryLoop(nd, k,
                        [l |-> l, r |-> r, res_l |-> Identity(k), res_r |-> Identity(k)])
             IN  [panic |-> FALSE, ret |-> <<Operation(k, s.res_l, s.res_r)>>]
        ELSE [panic |-> TRUE, ret |-> <<>>]

(***************************************************************************)
(* State.  n and node are the struct's fields; opKind stands for its op    *)
(* and id fields.  nLogical is the size requested at construction, which   *)
(* the struct does not keep.  lastOp records the last call made by the     *)
(* caller, its arguments and its outcome.                                  *)
(***************************************************************************)
VARIABLES n, node, opKind, nLogical, lastOp

(***************************************************************************)
(* qs and us are the locals of a query and of an update that is run one    *)
(* loop iteration at a time.  bs is a run of binary_search, dsu a          *)
(* DisjointSet and ms a MultiSet; each is used by its own specification    *)
(* and stays at its idle value in the others.                              *)
(***************************************************************************)
VARIABLES qs, us, bs, dsu, ms

Idle == [pc |-> "idle"]

treeVars == <<n, node, opKind, nLogical, lastOp>>
stepVars == <<qs, us>>
otherVars == <<bs, dsu, ms>>

vars == <<n, node, opKind, nLogical, lastOp, qs, us, bs, dsu, ms>>

\* Sequences of exactly len values.
SeqsOfLen(S, len) == [1..len -> S]

InitNew ==
    \E k \in OpKinds, size \in 0..MaxN :
        /\ opKind = k
        /\ nLogical = size
        /\ n = New(size, k).n
        /\ node = New(size, k).node
        /\ lastOp = [call |-> "new", args |-> <<size>>, panic |-> FALSE, ret |-> <<>>]

InitFromSlice ==
    \E k \in OpKinds, size \in 0..MaxN :
        \E slice \in SeqsOfLen(Values(k), size) :
            /\ opKind = k
            /\ nLogical = size
            /\ n = FromSlice(slice, k).n
            /\ node = FromSlice(slice, k).node
            /\ lastOp = [call |-> "from_slice", args |-> <<slice>>,
                         panic |-> FALSE, ret |-> <<>>]

InitTree == InitNew \/ InitFromSlice

Init ==
    /\ InitTree
    /\ qs = Idle /\ us = Idle
    /\ bs = Idle /\ dsu = Idle /\ ms = Idle

\* Arguments a caller may pass as an index or a bound: up to one past the capacity.
Indices == 0..(n + 1)
OptIndices == {None} \cup {Some(i) : i \in Indices}

\* tree.update(i, x)
Update(i, x) ==
    LET out == UpdateOutcome(node, n, opKind, i, x)
    IN  /\ node' = out.node
        /\ lastOp' = [call |-> "update", args |-> <<i, x>>,
                      panic |-> out.panic, ret |-> <<>>]
        /\ UNCHANGED <<n, opKind, nLogical>>
        /\ UNCHANGED <<stepVars, otherVars>>

\* tree[i]
Index(i) ==
    LET out == IndexOutcome(node, n, i)
    IN  /\ lastOp' = [call |-> "index", args |-> <<i>>,
                      panic |-> out.panic, ret |-> out.ret]
        /\ UNCHANGED <<n, node, opKind, nLogical>>
        /\ UNCHANGED <<stepVars, otherVars>>

\* tree.query(left, right)
Query(left, right) ==
    LET out == QueryOutcome(node, n, opKind, left, right)
    IN  /\ lastOp' = [call |-> "query", args |-> <<left, right>>,
                      panic |-> out.panic, ret |-> out.ret]
        /\ UNCHANGED <<n, node, opKind, nLogical>>
        /\ UNCHANGED <<stepVars, otherVars>>

Next ==
    \/ \E i \in Indices, x \in Values(opKind) : Update(i, x)
    \/ \E i \in Indices : Index(i)
    \/ \E left \in OptIndices, right \in OptIndices : Query(left, right)

Spec == Init /\ [][Next]_vars


(***************************************************************************)
(* The same tree with query and update run one loop iteration at a time.   *)
(* A call runs to completion before the next one starts (the owner holds   *)
(* the tree exclusively).  qs.calls counts the invocations of op, qs.iters *)
(* the iterations of query's loop and qs.reads collects the flat indices   *)
(* the loop has read; us.path lists the indices update's loop has written; *)
(* lastOp names the call being run.                                        *)
(***************************************************************************)

\* The number of invocations of op in one iteration of query's loop.
CallsInStep(s) ==
    (IF s.l % 2 = 1 THEN 1 ELSE 0) + (IF s.r % 2 = 1 THEN 1 ELSE 0)

\* The flat indices read in one iteration of query's loop: node[l], and node[r]
\* after r -= 1.
ReadsInStep(s) ==
    (IF s.l % 2 = 1 THEN {s.l} ELSE {}) \cup (IF s.r % 2 = 1 THEN {s.r - 1} ELSE {})

\* Variant: an empty accumulator pair is returned as the identity, without op.
QueryFinishSkipsEmpty(k, s) ==
    IF s.calls = 0
    THEN [ret |-> <<Identity(k)>>, calls |-> s.calls]
    ELSE [ret |-> <<Operation(k, s.res_l, s.res_r)>>, calls |-> s.calls + 1]

\* query's last line: (self.op)(res_l, res_r).
QueryFinish(k, s) ==
    [ret |-> <<Operation(k, s.res_l, s.res_r)>>, calls |-> s.calls + 1]

NoCallRunning == qs.pc # "loop" /\ us.pc # "walk"

\* query, up to the loop: the locals l, r, the assertion, res_l and res_r.
QStart(left, right) ==
    LET l == UnwrapOr(left, 0) + n
        r == UnwrapOr(right, n) + n
        len == 2 * n
    IN  /\ NoCallRunning
        /\ qs' = IF l <= r /\ l <= len /\ r <= len
                 THEN [pc |-> "loop", lo |-> l - n, hi |-> r - n, l |-> l, r |-> r,
                       res_l |-> Identity(opKind), res_r |-> Identity(opKind),
                       calls |-> 0, iters |-> 0, reads |-> {}, ret |-> <<>>]
                 ELSE [pc |-> "panic"]
        /\ us' = Idle
        /\ lastOp' = [call |-> "query"]
        /\ UNCHANGED <<n, node, opKind, nLogical, otherVars>>

\* One iteration of query's while loop.
QIter ==
    /\ qs.pc = "loop"
    /\ qs.l < qs.r
    /\ LET t == QueryStep(node, opKind, qs)
       IN  qs' = [qs EXCEPT !.l = t.l, !.r = t.r, !.res_l = t.res_l, !.res_r = t.res_r,
                            !.calls = @ + CallsInStep(qs), !.iters = @ + 1,
                            !.reads = @ \cup ReadsInStep(qs)]
    /\ UNCHANGED <<treeVars, us, otherVars>>

\* The loop's exit and the return of op(res_l, res_r).
QFinish ==
    /\ qs.pc = "loop"
    /\ ~(qs.l < qs.r)
    /\ LET f == QueryFinish(opKind, qs)
       IN  qs' = [qs EXCEPT !.pc = "done", !.ret = f.ret, !.calls = f.calls]
    /\ UNCHANGED <<treeVars, us, otherVars>>

\* update, up to the loop: the assertion and the write of the leaf.
UStart(i, x) ==
    /\ NoCallRunning
    /\ IF i < n
       THEN /\ node' = [node EXCEPT ![i + n] = x]
            /\ us' = [pc |-> "walk", index |-> i, value |-> x, i |-> i + n,
                       path |-> <<>>]
       ELSE /\ node' = node
            /\ us' = [pc |-> "panic"]
    /\ qs' = Idle
    /\ lastOp' = [call |-> "update"]
    /\ UNCHANGED <<n, opKind, nLogical, otherVars>>

\* One iteration of update's while loop.
UStep ==
    /\ us.pc = "walk"
    /\ us.i > 1
    /\ LET j == us.i \div 2
       IN  /\ node' = [node EXCEPT
                          ![j] = Operation(opKind, node[2 * j], node[2 * j + 1])]
           /\ us' = [us EXCEPT !.i = j, !.path = Append(@, j)]
    /\ UNCHANGED <<n, opKind, nLogical, lastOp, qs, otherVars>>

\* The loop's exit and update's return.
UFinish ==
    /\ us.pc = "walk"
    /\ ~(us.i > 1)
    /\ us' = [us EXCEPT !.pc = "done"]
    /\ UNCHANGED <<treeVars, qs, otherVars>>

NextSteps ==
    \/ \E left \in OptIndices, right \in OptIndices : QStart(left, right)
    \/ QIter
    \/ QFinish
    \/ \E i \in Indices, x \in Values(opKind) : UStart(i, x)
    \/ UStep
    \/ UFinish

SpecSteps == Init /\ [][NextSteps]_vars

\* A call that has started runs to its return: nothing suspends or cancels it.
SpecStepsFair ==
    /\ SpecSteps
    /\ WF_vars(QIter) /\ WF_vars(QFinish)
    /\ WF_vars(UStep) /\ WF_vars(UFinish)

(***************************************************************************)
(* One update and one query on the same tree with no mutual exclusion: the *)
(* steps of the update (the write of the leaf, then one ancestor per step) *)
(* and the steps of the query (the left branch of an iteration, then its   *)
(* right branch and the two shifts) are taken in any order.  us.before is  *)
(* node as the update found it; qs.broken tells whether a step of the      *)
(* query ran while some internal node differed from op of its children.    *)
(* The tree is one over sequences under concatenation, the free monoid on  *)
(* the letters: the result of a run with any other (op, id) is the image   *)
(* of a run on letters, so two results that differ there differ here.      *)
(***************************************************************************)

\* node[i] = op(node[2i], node[2i + 1]) at every internal index.
HeapHolds(nd, cap, k) ==
    \A j \in 1..(cap - 1) : nd[j] = Operation(k, nd[2 * j], nd[2 * j + 1])

\* The left branch of an iteration: if l & 1 == 1 { res_l = op(res_l, node[l]); l += 1 }.
QueryLeft(nd, k, s) ==
    IF s.l % 2 = 1
    THEN [l |-> s.l + 1, r |-> s.r,
          res_l |-> Operation(k, s.res_l, nd[s.l]), res_r |-> s.res_r]
    ELSE [l |-> s.l, r |-> s.r, res_l |-> s.res_l, res_r |-> s.res_r]

\* Variant: the right node is read before r is decremented.
QueryRightReadsBeforeDecrement(nd, k, s) ==
    LET b == IF s.r % 2 = 1
             THEN [r |-> s.r - 1, res_r |-> Operation(k, nd[s.r], s.res_r)]
             ELSE [r |-> s.r, res_r |-> s.res_r]
    IN  [l |-> s.l \div 2, r |-> b.r \div 2, res_l |-> s.res_l, res_r |-> b.res_r]

\* The rest of the iteration: if r & 1 == 1 { r -= 1; res_r = op(node[r], res_r) };
\* l >>= 1; r >>= 1.
QueryRight(nd, k, s) ==
    LET b == IF s.r % 2 = 1
             THEN [r |-> s.r - 1, res_r |-> Operation(k, nd[s.r - 1], s.res_r)]
             ELSE [r |-> s.r, res_r |-> s.res_r]
    IN  [l |-> s.l \div 2, r |-> b.r \div 2, res_l |-> s.res_l, res_r |-> b.res_r]

\* One iteration of update's loop: i >>= 1; node[i] = op(node[i << 1], node[i << 1 | 1]).
WalkStep(nd, k, i) ==
    LET j == i \div 2
    IN  [i |-> j, node |-> [nd EXCEPT ![j] = Operation(k, nd[2 * j], nd[2 * j + 1])]]

\* query, up to the loop, while an update may be under way.
RaceQStart(left, right) ==
    LET l == UnwrapOr(left, 0) + n
        r == UnwrapOr(right, n) + n
        len == 2 * n
    IN  /\ qs = Idle
        /\ qs' = IF l <= r /\ l <= len /\ r <= len
                 THEN [pc |-> "loop", lo |-> l - n, hi |-> r - n, l |-> l, r |-> r,
                       res_l |-> Identity(opKind), res_r |-> Identity(opKind),
                       broken |-> FALSE, ret |-> <<>>]
                 ELSE [pc |-> "panic"]
        /\ lastOp' = [call |-> "race"]
        /\ UNCHANGED <<n, node, opKind, nLogical, us, otherVars>>

\* The loop's test and the left branch of the iteration.
RaceQLeft ==
    /\ qs.pc = "loop"
    /\ qs.l < qs.r
    /\ LET t == QueryLeft(node, opKind, qs)
       IN  qs' = [qs EXCEPT !.pc = "right", !.l = t.l, !.res_l = t.res_l,
                            !.broken = @ \/ ~HeapHolds(node, n, opKind)]
    /\ UNCHANGED <<treeVars, us, otherVars>>

\* The right branch of the iteration and the two shifts.
RaceQRight ==
    /\ qs.pc = "right"
    /\ LET t == QueryRight(node, opKind, qs)
       IN  qs' = [qs EXCEPT !.pc = "loop", !.l = t.l, !.r = t.r, !.res_r = t.res_r,
                            !.broken = @ \/ ~HeapHolds(node, n, opKind)]
    /\ UNCHANGED <<treeVars, us, otherVars>>

\* The loop's exit and the return of op(res_l, res_r).
RaceQFinish ==
    /\ qs.pc = "loop"
    /\ ~(qs.l < qs.r)
    /\ qs' = [qs EXCEPT !.pc = "done",
                         !.ret = <<Operation(opKind, qs.res_l, qs.res_r)>>]
    /\ UNCHANGED <<treeVars, us, otherVars>>

\* update, up to the loop, while a query may be under way.
RaceUStart(i, x) ==
    /\ us = Idle
    /\ IF i < n
       THEN /\ node' = [node EXCEPT ![i + n] = x]
            /\ us' = [pc |-> "walk", index |-> i, value |-> x, i |-> i + n,
                      before |-> node]
       ELSE /\ node' = node
            /\ us' = [pc |-> "panic"]
    /\ lastOp' = [call |-> "race"]
    /\ UNCHANGED <<n, opKind, nLogical, qs, otherVars>>

\* One iteration of update's while loop.
RaceUStep ==
    /\ us.pc = "walk"
    /\ us.i > 1
    /\ LET w == WalkStep(node, opKind, us.i)
       IN  /\ node' = w.node
           /\ us' = [us EXCEPT !.i = w.i]
    /\ UNCHANGED <<n, opKind, nLogical, lastOp, qs, otherVars>>

\* The loop's exit and update's return.
RaceUFinish ==
    /\ us.pc = "walk"
    /\ ~(us.i > 1)
    /\ us' = [us EXCEPT !.pc = "done"]
    /\ UNCHANGED <<treeVars, qs, otherVars>>

NextRace ==
    \/ \E left \in OptIndices, right \in OptIndices : RaceQStart(left, right)
    \/ RaceQLeft
    \/ RaceQRight
    \/ RaceQFinish
    \/ \E i \in Indices, x \in Values(opKind) : RaceUStart(i, x)
    \/ RaceUStep
    \/ RaceUFinish

InitRace == Init /\ opKind = "concat"

SpecRace == InitRace /\ [][NextRace]_vars

(***************************************************************************)
(* binary_search (src/algorithms/binary_search.rs) over integers, run one  *)
(* loop iteration at a time, called directly with a predicate F or through *)
(* bisect_left / bisect_right on a sorted slice.  bs.iters counts the      *)
(* iterations of the loop.                                                 *)
(***************************************************************************)

Abs(a) == IF a < 0 THEN -a ELSE a

\* Integer `/`: the quotient truncated towards zero.
TruncDiv(a, b) ==
    LET q == Abs(a) \div Abs(b)
    IN  IF (a < 0) # (b < 0) THEN -q ELSE q

\* let one = if bad + good == bad { bad.div(bad) } else { good.div(good) }
One(bad, good) ==
    IF bad + good = bad THEN TruncDiv(bad, bad) ELSE TruncDiv(good, good)

\* Variant: the range test with >= in place of >.
HasRangeInclusive(bad, good, eps) ==
    CASE good > bad -> [panic |-> FALSE, val |-> good >= eps + bad]
      [] good < bad -> [panic |-> FALSE, val |-> bad >= eps + good]
      [] OTHER -> [panic |-> TRUE, val |-> FALSE]

\* has_range: good > eps + bad or bad > eps + good, by the order of good and bad.
HasRange(bad, good, eps) ==
    CASE good > bad -> [panic |-> FALSE, val |-> good > eps + bad]
      [] good < bad -> [panic |-> FALSE, val |-> bad > eps + good]
      [] OTHER -> [panic |-> TRUE, val |-> FALSE]

\* self(mid): the caller's predicate (true from t upwards, or up to t), or
\* bisect's closure self[i as usize] >= *x (bisect_left), > *x (bisect_right),
\* which panics for an index outside the slice.
EvalF(f, mid) ==
    CASE f.kind = "ge" -> [panic |-> FALSE, val |-> mid >= f.t]
      [] f.kind = "le" -> [panic |-> FALSE, val |-> mid <= f.t]
      [] f.kind \in {"bisect_left", "bisect_right"} ->
            IF mid < 0 \/ mid >= Len(f.slice)
            THEN [panic |-> TRUE, val |-> FALSE]
            ELSE [panic |-> FALSE,
                  val |-> IF f.kind = "bisect_left"
                          THEN f.slice[mid + 1] >= f.x
                          ELSE f.slice[mid + 1] > f.x]

IsSorted(sl) == \A i \in 1..(Len(sl) - 1) : sl[i] <= sl[i + 1]
SortedSlices == {sl \in UNION {SeqsOfLen(0..MaxVal, len) : len \in 0..MaxLen} : IsSorted(sl)}

\* The arguments of a direct call: boundaries, eps, and a monotone predicate.
BsArgs == -1..(MaxLen + 1)
BsEps == {None, Some(1), Some(2)}
BsPreds == {[kind |-> k, t |-> t] : k \in {"ge", "le"}, t \in -2..(MaxLen + 2)}

BsCallState(f, bad, good, eps) ==
    [pc |-> "call", f |-> f, bad0 |-> bad, good0 |-> good, eps0 |-> eps]

InitBS ==
    /\ \/ \E f \in BsPreds, bad \in BsArgs, good \in BsArgs, eps \in BsEps :
             bs = BsCallState(f, bad, good, eps)
       \* bisect_left / bisect_right: f.binary_search(-1, self.len() as i64, None)
       \/ \E k \in {"bisect_left", "bisect_right"}, sl \in SortedSlices,
             x \in -1..(MaxVal + 1) :
             bs = BsCallState([kind |-> k, slice |-> sl, x |-> x], -1, Len(sl), None)
    /\ n = 0 /\ node = <<>> /\ opKind = "sum" /\ nLogical = 0 /\ lastOp = Idle
    /\ qs = Idle /\ us = Idle /\ dsu = Idle /\ ms = Idle

\* binary_search, up to the loop: the equality check, one, eps and two.
BsCall ==
    /\ bs.pc = "call"
    /\ bs' = IF bs.bad0 = bs.good0
             THEN [bs EXCEPT !.pc = "panic"]
             ELSE LET one == One(bs.bad0, bs.good0)
                  IN  [pc |-> "loop", f |-> bs.f, bad0 |-> bs.bad0, good0 |-> bs.good0,
                       eps0 |-> bs.eps0, eps |-> UnwrapOr(bs.eps0, one),
                       two |-> one + one, bad |-> bs.bad0, good |-> bs.good0,
                       iters |-> 0]
    /\ UNCHANGED <<treeVars, stepVars, dsu, ms>>

\* One iteration of the loop: mid = (bad + good) / two; good or bad becomes mid.
BsIter ==
    /\ bs.pc = "loop"
    /\ LET h == HasRange(bs.bad, bs.good, bs.eps)
           mid == TruncDiv(bs.bad + bs.good, bs.two)
           v == EvalF(bs.f, mid)
       IN  /\ ~h.panic /\ h.val
           /\ bs' = IF v.panic THEN [bs EXCEPT !.pc = "panic", !.iters = @ + 1]
                    ELSE IF v.val THEN [bs EXCEPT !.good = mid, !.iters = @ + 1]
                    ELSE [bs EXCEPT !.bad = mid, !.iters = @ + 1]
    /\ UNCHANGED <<treeVars, stepVars, dsu, ms>>

\* The loop's exit: good is returned (or has_range panics on bad == good).
BsReturn ==
    /\ bs.pc = "loop"
    /\ LET h == HasRange(bs.bad, bs.good, bs.eps)
       IN  /\ h.panic \/ ~h.val
           /\ bs' = IF h.panic THEN [bs EXCEPT !.pc = "panic"]
                    ELSE [pc |-> "done", f |-> bs.f, bad0 |-> bs.bad0,
                          good0 |-> bs.good0, eps0 |-> bs.eps0, eps |-> bs.eps,
                          iters |-> bs.iters, ret |-> bs.good]
    /\ UNCHANGED <<treeVars, stepVars, dsu, ms>>

NextBS == BsCall \/ BsIter \/ BsReturn

SpecBS == InitBS /\ [][NextBS]_vars

(***************************************************************************)
(* DisjointSet (src/data_structure/dsu.rs).  dsu.n and dsu.p are the       *)
(* fields n and parent_or_size; dsu.comp maps every element to the set of  *)
(* elements the merge calls made so far connect it to; dsu.last is the     *)
(* last call.                                                              *)
(***************************************************************************)

\* DisjointSet::new
DsuNew(size) == [n |-> size, p |-> [e \in 0..(size - 1) |-> -1]]

\* DisjointSet::leader, with its path compression.
RECURSIVE LeaderRun(_, _, _)
LeaderRun(p, size, a) ==
    IF ~(a < size) THEN [panic |-> TRUE, p |-> p, ret |-> 0]
    ELSE IF p[a] < 0 THEN [panic |-> FALSE, p |-> p, ret |-> a]
    ELSE LET r == LeaderRun(p, size, p[a])
         IN  IF r.panic THEN r
             ELSE [panic |-> FALSE, p |-> [r.p EXCEPT ![a] = r.ret], ret |-> r.ret]

\* Variant: the absorbed set's size is not added (no parent_or_size[x] += ...).
MergeOutcomeKeepsSize(p, size, a, b) ==
    IF ~(a < size) \/ ~(b < size) THEN [panic |-> TRUE, p |-> p, ret |-> 0]
    ELSE LET la == LeaderRun(p, size, a)
             lb == LeaderRun(la.p, size, b)
             q == lb.p
             swap == -q[la.ret] < -q[lb.ret]
             x == IF swap THEN lb.ret ELSE la.ret
             y == IF swap THEN la.ret ELSE lb.ret
         IN  IF la.ret = lb.ret THEN [panic |-> FALSE, p |-> q, ret |-> la.ret]
             ELSE [panic |-> FALSE, p |-> [q EXCEPT ![y] = x], ret |-> x]

\* DisjointSet::merge
MergeOutcome(p, size, a, b) ==
    IF ~(a < size) \/ ~(b < size) THEN [panic |-> TRUE, p |-> p, ret |-> 0]
    ELSE LET la == LeaderRun(p, size, a)
             lb == LeaderRun(la.p, size, b)
             q == lb.p
             swap == -q[la.ret] < -q[lb.ret]
             x == IF swap THEN lb.ret ELSE la.ret
             y == IF swap THEN la.ret ELSE lb.ret
         IN  IF la.ret = lb.ret THEN [panic |-> FALSE, p |-> q, ret |-> la.ret]
             ELSE [panic |-> FALSE,
                   p |-> [q EXCEPT ![x] = q[x] + q[y], ![y] = x],
                   ret |-> x]

\* DisjointSet::same
SameOutcome(p, size, a, b) ==
    IF ~(a < size) \/ ~(b < size) THEN [panic |-> TRUE, p |-> p, ret |-> FALSE]
    ELSE LET la == LeaderRun(p, size, a)
             lb == LeaderRun(la.p, size, b)
         IN  [panic |-> FALSE, p |-> lb.p, ret |-> la.ret = lb.ret]

\* DisjointSet::size
SizeOutcome(p, size, a) ==
    LET l == LeaderRun(p, size, a)
    IN  IF l.panic THEN l ELSE [panic |-> FALSE, p |-> l.p, ret |-> -l.p[l.ret]]

\* Arguments of the calls: the elements and one number past them.
DsuArgs == 0..dsu.n

InitDSU ==
    /\ dsu = [n |-> MaxElems, p |-> DsuNew(MaxElems).p,
              comp |-> [e \in 0..(MaxElems - 1) |-> {e}],
              last |-> [call |-> "new", args |-> <<MaxElems>>, panic |-> FALSE,
                        ret |-> 0]]
    /\ n = 0 /\ node = <<>> /\ opKind = "sum" /\ nLogical = 0 /\ lastOp = Idle
    /\ qs = Idle /\ us = Idle /\ bs = Idle /\ ms = Idle

DsuCalled(name, args, out) ==
    [call |-> name, args |-> args, panic |-> out.panic, ret |-> out.ret]

\* dsu.merge(a, b)
DsuMerge(a, b) ==
    LET out == MergeOutcome(dsu.p, dsu.n, a, b)
        joined == dsu.comp[a] \cup dsu.comp[b]
    IN  /\ dsu' = [dsu EXCEPT
                      !.p = out.p,
                      !.comp = IF out.panic THEN @
                               ELSE [e \in DOMAIN @ |->
                                        IF e \in joined THEN joined ELSE @[e]],
                      !.last = DsuCalled("merge", <<a, b>>, out)]
        /\ UNCHANGED <<treeVars, stepVars, bs, ms>>

\* dsu.same(a, b)
DsuSame(a, b) ==
    LET out == SameOutcome(dsu.p, dsu.n, a, b)
    IN  /\ dsu' = [dsu EXCEPT !.p = out.p, !.last = DsuCalled("same", <<a, b>>, out)]
        /\ UNCHANGED <<treeVars, stepVars, bs, ms>>

\* dsu.leader(a)
DsuLeader(a) ==
    LET out == LeaderRun(dsu.p, dsu.n, a)
    IN  /\ dsu' = [dsu EXCEPT !.p = out.p, !.last = DsuCalled("leader", <<a>>, out)]
        /\ UNCHANGED <<treeVars, stepVars, bs, ms>>

\* dsu.size(a)
DsuSize(a) ==
    LET out == SizeOutcome(dsu.p, dsu.n, a)
    IN  /\ dsu' = [dsu EXCEPT !.p = out.p, !.last = DsuCalled("size", <<a>>, out)]
        /\ UNCHANGED <<treeVars, stepVars, bs, ms>>

NextDSU ==
    \/ \E a \in DsuArgs, b \in DsuArgs : DsuMerge(a, b)
    \/ \E a \in DsuArgs, b \in DsuArgs : DsuSame(a, b)
    \/ \E a \in DsuArgs : DsuLeader(a)
    \/ \E a \in DsuArgs : DsuSize(a)

SpecDSU == InitDSU /\ [][NextDSU]_vars

(***************************************************************************)
(* MultiSet (src/data_structure/multi_set.rs).  ms.len and ms.multi_set    *)
(* are the struct's fields, the BTreeMap being a function from its keys to *)
(* their counts; ms.last is the last call.                                 *)
(***************************************************************************)

MsKeys == 0..MaxVal

\* MultiSet::count: *self.multi_set.get(e).unwrap_or(&0)
MsCount(m, e) == IF e \in DOMAIN m THEN m[e] ELSE 0

\* MultiSet::contains: self.multi_set.contains_key(e)
MsContains(m, e) == e \in DOMAIN m

\* MultiSet::is_empty: self.multi_set.is_empty()
MsIsEmpty(m) == DOMAIN m = {}

\* BTreeMap::remove
MapRemove(m, e) == [k \in DOMAIN m \ {e} |-> m[k]]

\* MultiSet::insert: len += 1; *entry(e).or_insert(0) += 1
MsInsert(len, m, e) ==
    [len |-> len + 1,
     multi_set |-> [k \in DOMAIN m \cup {e} |-> MsCount(m, k) + IF k = e THEN 1 ELSE 0]]

\* Variant: a key whose count reaches 0 stays in the map.
MsRemoveKeepsKey(len, m, e) ==
    IF ~MsContains(m, e) THEN [ret |-> FALSE, len |-> len, multi_set |-> m]
    ELSE [ret |-> TRUE, len |-> len - 1, multi_set |-> [m EXCEPT ![e] = @ - 1]]

\* MultiSet::remove
MsRemove(len, m, e) ==
    IF ~MsContains(m, e) THEN [ret |-> FALSE, len |-> len, multi_set |-> m]
    ELSE LET dec == [m EXCEPT ![e] = @ - 1]
         IN  [ret |-> TRUE, len |-> len - 1,
              multi_set |-> IF MsCount(dec, e) = 0 THEN MapRemove(dec, e) ELSE dec]

\* MultiSet::first / last: the smallest / largest key.
MsFirst(m) == CHOOSE k \in DOMAIN m : \A j \in DOMAIN m : k <= j
MsLast(m) == CHOOSE k \in DOMAIN m : \A j \in DOMAIN m : k >= j

\* MultiSet::pop_first / pop_last, by the key they pick.
MsPop(len, m, first) ==
    IF MsIsEmpty(m) THEN [ret |-> None, len |-> len, multi_set |-> m]
    ELSE LET key == IF first THEN MsFirst(m) ELSE MsLast(m)
             r == MsRemove(len, m, key)
         IN  [ret |-> Some(key), len |-> r.len, multi_set |-> r.multi_set]

\* MultiSet::from_slice: new(), then insert of every element.
RECURSIVE MsFromSlice(_, _)
MsFromSlice(slice, i) ==
    IF i = 0 THEN [len |-> 0, multi_set |-> <<>>]
    ELSE LET t == MsFromSlice(slice, i - 1)
         IN  MsInsert(t.len, t.multi_set, slice[i])

InitMS ==
    /\ \E size \in 0..MaxMsLen :
          \E slice \in SeqsOfLen(MsKeys, size) :
             LET t == MsFromSlice(slice, size)
             IN  ms = [len |-> t.len, multi_set |-> t.multi_set,
                       last |-> [call |-> "from_slice", args |-> <<>>, ret |-> <<>>]]
    /\ n = 0 /\ node = <<>> /\ opKind = "sum" /\ nLogical = 0 /\ lastOp = Idle
    /\ qs = Idle /\ us = Idle /\ bs = Idle /\ dsu = Idle

MsCalled(name, args, out, ret) ==
    [len |-> out.len, multi_set |-> out.multi_set,
     last |-> [call |-> name, args |-> args, ret |-> ret]]

\* ms.insert(e)
MsInsertCall(e) ==
    /\ ms.len < MaxMsLen
    /\ ms' = MsCalled("insert", <<e>>, MsInsert(ms.len, ms.multi_set, e), <<>>)
    /\ UNCHANGED <<treeVars, stepVars, bs, dsu>>

\* ms.remove(&e)
MsRemoveCall(e) ==
    LET out == MsRemove(ms.len, ms.multi_set, e)
    IN  /\ ms' = MsCalled("remove", <<e>>, out, <<out.ret>>)
        /\ UNCHANGED <<treeVars, stepVars, bs, dsu>>

\* ms.pop_first()
MsPopFirstCall ==
    LET out == MsPop(ms.len, ms.multi_set, TRUE)
    IN  /\ ms' = MsCalled("pop_first", <<>>, out, <<out.ret>>)
        /\ UNCHANGED <<treeVars, stepVars, bs, dsu>>

\* ms.pop_last()
MsPopLastCall ==
    LET out == MsPop(ms.len, ms.multi_set, FALSE)
    IN  /\ ms' = MsCalled("pop_last", <<>>, out, <<out.ret>>)
        /\ UNCHANGED <<treeVars, stepVars, bs, dsu>>

\* ms.clear(): len = 0; multi_set.clear()
MsClearCall ==
    /\ ms' = MsCalled("clear", <<>>, [len |-> 0, multi_set |-> <<>>], <<>>)
    /\ UNCHANGED <<treeVars, stepVars, bs, dsu>>

NextMS ==
    \/ \E e \in MsKeys : MsInsertCall(e)
    \/ \E e \in MsKeys : MsRemoveCall(e)
    \/ MsPopFirstCall
    \/ MsPopLastCall
    \/ MsClearCall

SpecMS == InitMS /\ [][NextMS]_vars

(***************************************************************************)
(* Properties.                                                             *)
(***************************************************************************)

\* The calls on the current tree, as the caller sees them.
Q(left, right) == QueryOutcome(node, n, opKind, left, right)
Read(i) == IndexOutcome(node, n, i)
Returned(v) == [panic |-> FALSE, ret |-> <<v>>]
Id == Identity(opKind)

\* The left-to-right fold, from the identity, of the leaves at positions i..j-1.
RECURSIVE FoldLeaves(_, _)
FoldLeaves(i, j) ==
    IF j <= i THEN Id
    ELSE Operation(opKind, FoldLeaves(i, j - 1), node[n + j - 1])

\* The leaves at positions i..j-1 written one after the other.
RECURSIVE LeavesInOrder(_, _)
LeavesInOrder(i, j) ==
    IF j <= i THEN <<>> ELSE node[n + i] \o LeavesInOrder(i + 1, j)

UpdateAccepted == lastOp.call = "update" /\ ~lastOp.panic

\* C1: after construction and any completed updates, every internal flat index
\* i with 1 <= i < capacity has node[i] = operation(node[2i], node[2i+1]).
C1_HeapInvariant ==
    \A i \in 1..(n - 1) :
        node[i] = Operation(opKind, node[2 * i], node[2 * i + 1])

C1_Witness ==
    /\ UpdateAccepted
    /\ n = 4
    /\ node[1] # Id
    /\ node[2] # Id
    /\ node[3] # Id

\* C2: for a tree built by from_slice and changed by updates, query(i, j) for
\* every 0 <= i <= j <= len(S) is the left-to-right fold, from the identity, of
\* the current values at positions i..j-1.
C2_QueryIsFold ==
    \A i \in 0..nLogical :
        \A j \in i..nLogical :
            Q(Some(i), Some(j)) = Returned(FoldLeaves(i, j))

C2_Witness ==
    /\ UpdateAccepted
    /\ lastOp.args[1] = 1
    /\ nLogical = 3
    /\ \A p \in 0..2 : node[n + p] # Id
    /\ Q(Some(0), Some(3)) = Returned(FoldLeaves(0, 3))

\* C3: with concatenation (associative, not commutative), query(i, k) for every
\* 0 <= i <= k <= n_logical is the elements at positions i, ..., k-1 in exactly
\* that order.
C3_OrderSensitive ==
    opKind = "concat" =>
        \A i \in 0..nLogical :
            \A k \in i..nLogical :
                Q(Some(i), Some(k)) = Returned(LeavesInOrder(i, k))

C3_Witness ==
    /\ opKind = "concat"
    /\ lastOp.call = "query"
    /\ lastOp.args = <<Some(0), Some(3)>>
    /\ nLogical = 3
    /\ lastOp.ret = <<node[n] \o node[n + 1] \o node[n + 2]>>
    /\ Len(lastOp.ret[1]) = 3
    /\ lastOp.ret[1][1] # lastOp.ret[1][3]

\* C4: for all 0 <= i <= j <= k <= n_logical,
\* query(i, k) = operation(query(i, j), query(j, k)).
C4_Decomposition ==
    \A i \in 0..nLogical :
        \A j \in i..nLogical :
            \A k \in j..nLogical :
                /\ ~Q(Some(i), Some(j)).panic
                /\ ~Q(Some(j), Some(k)).panic
                /\ Q(Some(i), Some(k)) =
                       Returned(Operation(opKind, Q(Some(i), Some(j)).ret[1],
                                                  Q(Some(j), Some(k)).ret[1]))

C4_Witness ==
    /\ UpdateAccepted
    /\ nLogical = 3
    /\ Q(Some(0), Some(1)).ret[1] # Id
    /\ Q(Some(1), Some(3)).ret[1] # Id
    /\ Q(Some(0), Some(3)).ret[1] # Q(Some(0), Some(1)).ret[1]
    /\ Q(Some(0), Some(3)).ret[1] # Q(Some(1), Some(3)).ret[1]

\* C5: for every p < n_logical and every v, right after update(p, v) both
\* read(p) and query(p, p+1) return v.
C5_ReadAfterUpdate ==
    (lastOp.call = "update" /\ lastOp.args[1] < nLogical) =>
        /\ ~lastOp.panic
        /\ Read(lastOp.args[1]) = Returned(lastOp.args[2])
        /\ Q(Some(lastOp.args[1]), Some(lastOp.args[1] + 1)) = Returned(lastOp.args[2])

C5_Witness ==
    /\ UpdateAccepted
    /\ nLogical = 3
    /\ lastOp.args[1] = 2
    /\ lastOp.args[2] # Id
    /\ Read(2) = Returned(lastOp.args[2])

\* C6 as stated: read(index) fails for every index >= n_logical (the size
\* requested at construction), so that padding slots are not readable.
C6_ReadFailsBeyondLogicalSize ==
    (lastOp.call = "index" /\ lastOp.args[1] >= nLogical) => lastOp.panic

\* C6 as amended: read(index) fails for every index >= capacity and returns the
\* leaf node[capacity + index] for every index < capacity, padding slots included.
C6_ReadFailsBeyondCapacity ==
    lastOp.call = "index" =>
        /\ lastOp.args[1] >= n => lastOp.panic /\ lastOp.ret = <<>>
        /\ lastOp.args[1] < n =>
              ~lastOp.panic /\ lastOp.ret = <<node[n + lastOp.args[1]]>>

C6_Witness ==
    /\ lastOp.call = "index"
    /\ lastOp.args[1] >= n
    /\ lastOp.panic

\* C7 as stated: update(index, value) with index >= n_logical fails and leaves
\* every entry of the node array as it was.
C7_UpdateFailsBeyondLogicalSize ==
    [][(lastOp'.call = "update" /\ lastOp'.args[1] >= nLogical)
          => (lastOp'.panic /\ node' = node)]_vars

\* C7 as amended: update(index, value) with index >= capacity fails and leaves
\* every entry of the node array as it was.
C7_UpdateFailsBeyondCapacity ==
    [][(lastOp'.call = "update" /\ lastOp'.args[1] >= n)
          => (lastOp'.panic /\ node' = node)]_vars

C7_Witness ==
    /\ lastOp.call = "update"
    /\ lastOp.args[1] >= n
    /\ lastOp.panic
    /\ lastOp.args[2] # Id

BothGiven == lastOp.args[1] # None /\ lastOp.args[2] # None

\* C8 as stated: query(left, right) fails whenever left > right or
\* right > n_logical, and returns a value only when left <= right <= n_logical.
C8_QueryFailsBeyondLogicalSize ==
    (lastOp.call = "query" /\ BothGiven) =>
        (lastOp.panic <=>
            (lastOp.args[1][1] > lastOp.args[2][1] \/ lastOp.args[2][1] > nLogical))

\* C8 as amended: query(left, right) fails whenever left > right or
\* right > capacity, and returns a value only when left <= right <= capacity.
C8_QueryFailsBeyondCapacity ==
    (lastOp.call = "query" /\ BothGiven) =>
        (lastOp.panic <=>
            (lastOp.args[1][1] > lastOp.args[2][1] \/ lastOp.args[2][1] > n))

C8_Witness ==
    /\ lastOp.call = "query"
    /\ BothGiven
    /\ lastOp.args[1][1] > lastOp.args[2][1]
    /\ lastOp.args[2][1] <= n
    /\ lastOp.panic

\* C9 as stated: an unspecified left behaves as 0 and an unspecified right as
\* n_logical.
C9_DefaultsAreLogicalBounds ==
    /\ Q(None, None) = Q(Some(0), Some(nLogical))
    /\ \A l \in 0..nLogical : Q(Some(l), None) = Q(Some(l), Some(nLogical))
    /\ \A r \in 0..nLogical : Q(None, Some(r)) = Q(Some(0), Some(r))

\* C9 as amended: an unspecified left behaves as 0 and an unspecified right as
\* the capacity.
C9_DefaultsAreCapacityBounds ==
    /\ Q(None, None) = Q(Some(0), Some(n))
    /\ \A l \in Indices : Q(Some(l), None) = Q(Some(l), Some(n))
    /\ \A r \in Indices : Q(None, Some(r)) = Q(Some(0), Some(r))

C9_Witness ==
    /\ lastOp.call = "query"
    /\ lastOp.args = <<None, None>>
    /\ nLogical < n
    /\ lastOp = [call |-> "query", args |-> <<None, None>>,
                 panic |-> FALSE, ret |-> Q(Some(0), Some(n)).ret]
    /\ lastOp.ret # Q(Some(0), Some(nLogical)).ret

\* C10: query(k, k) returns the identity for every 0 <= k <= n_logical.
C10_EmptyRange ==
    \A k \in 0..nLogical : Q(Some(k), Some(k)) = Returned(Id)

C10_Witness ==
    /\ lastOp.call = "query"
    /\ lastOp.args = <<Some(1), Some(1)>>
    /\ nLogical = 3
    /\ node[n + 1] # Id
    /\ node[n] # Id
    /\ lastOp.ret = <<Id>>

\* C11 as stated: a query over an empty range (left == right) returns the
\* identity and the number of calls of the operation during it is zero.
C11_EmptyRangeCallsNothing ==
    (qs.pc = "done" /\ qs.lo = qs.hi) => (qs.ret = <<Id>> /\ qs.calls = 0)

\* C11 as amended: a query over an empty range returns the identity, its loop
\* body never runs, and the operation is called exactly once, by the final
\* op(res_l, res_r).
C11_EmptyRangeCallsOnce ==
    (qs.pc = "done" /\ qs.lo = qs.hi) =>
        (qs.ret = <<Id>> /\ qs.iters = 0 /\ qs.calls = 1)

C11_Witness ==
    /\ qs.pc = "done"
    /\ qs.lo = 1
    /\ qs.hi = 1
    /\ nLogical = 3
    /\ node[n + 1] # Id
    /\ qs.ret = <<Id>>

RECURSIVE Pow2(_)
Pow2(h) == IF h = 0 THEN 1 ELSE 2 * Pow2(h - 1)

RECURSIVE Log2(_)
Log2(c) == IF c <= 1 THEN 0 ELSE 1 + Log2(c \div 2)

\* While query's loop runs and after it: the iterations made are at most
\* log2(n) + 1, the calls of op at most two per iteration, and the flat
\* indices read lie in 1..2n-1.
QueryStepBounds ==
    qs.pc \in {"loop", "done"} =>
        /\ qs.iters <= Log2(n) + 1
        /\ qs.calls <= 2 * qs.iters + (IF qs.pc = "done" THEN 1 ELSE 0)
        /\ qs.reads \subseteq 1..(2 * n - 1)

\* The indices update's loop has written are the ancestors of the leaf, nearest
\* first; at its return they are all log2(n) of them and the last is the root.
UpdateStepBounds ==
    us.pc \in {"walk", "done"} =>
        /\ Len(us.path) <= Log2(n)
        /\ \A m \in 1..Len(us.path) : us.path[m] = (us.index + n) \div Pow2(m)
        /\ us.pc = "done" =>
              /\ Len(us.path) = Log2(n)
              /\ us.i = 1
              /\ n > 1 => us.path[Len(us.path)] = 1

\* One iteration of query's loop calls op at most twice.
AtMostTwoCalls ==
    (qs.pc = "loop" /\ qs'.pc = "loop") => qs'.calls - qs.calls <= 2

\* C21: every accepted call terminates.  query's loop makes at most
\* log2(capacity) + 1 iterations, each with at most two calls of op, and reads
\* only flat indices in 1..2*capacity-1; update recomputes exactly the
\* log2(capacity) ancestors of the touched leaf, ending at the root, index 1.
C21_StepBounds ==
    /\ [](QueryStepBounds /\ UpdateStepBounds)
    /\ [][AtMostTwoCalls]_vars
    /\ (qs.pc = "loop") ~> (qs.pc = "done")
    /\ (us.pc = "walk") ~> (us.pc = "done")

C21_Witness ==
    /\ n = 4
    /\ qs.pc = "done"
    /\ qs.iters = Log2(n) + 1
    /\ qs.reads = {1}

C21_UpdateWitness ==
    /\ n = 4
    /\ us.pc = "done"
    /\ us.path = <<3, 1>>

\* The leaf positions under the window [l, r) of flat indices after qs.iters halvings.
WindowLo == qs.l * Pow2(qs.iters) - n
WindowHi == qs.r * Pow2(qs.iters) - n

\* At the loop's test: res_l is the in-order fold of the leaves consumed on the
\* left of the window, res_r that of the leaves consumed on its right, and
\* res_l, the window and res_r together make the fold of the requested range.
LoopInvariant ==
    qs.pc = "loop" =>
        /\ qs.lo <= WindowLo /\ WindowLo <= WindowHi /\ WindowHi <= qs.hi
        /\ qs.res_l = FoldLeaves(qs.lo, WindowLo)
        /\ qs.res_r = FoldLeaves(WindowHi, qs.hi)
        /\ Operation(opKind,
                     Operation(opKind, qs.res_l, FoldLeaves(WindowLo, WindowHi)),
                     qs.res_r) = FoldLeaves(qs.lo, qs.hi)

\* An iteration appends the left node to res_l and prepends the right node to res_r.
IterationShape ==
    (qs.pc = "loop" /\ qs'.pc = "loop") =>
        /\ qs'.res_l = IF qs.l % 2 = 1
                       THEN Operation(opKind, qs.res_l, node[qs.l])
                       ELSE qs.res_l
        /\ qs'.res_r = IF qs.r % 2 = 1
                       THEN Operation(opKind, node[qs.r - 1], qs.res_r)
                       ELSE qs.res_r

\* C20: at the start of every iteration of query's loop res_l (accLeft) and
\* res_r (accRight) are the in-order folds of the leaves consumed on the left and
\* on the right of the remaining window, so that op(res_l, window, res_r) is the
\* fold of the requested range; left nodes are appended as op(res_l, node[l]) and
\* right nodes prepended as op(node[r], res_r).
C20_QueryLoopInvariant == [](LoopInvariant) /\ [][IterationShape]_vars

C20_Witness ==
    /\ opKind = "concat"
    /\ qs.pc = "loop"
    /\ qs.iters = 1
    /\ qs.l < qs.r
    /\ qs.res_r # Id
    /\ node[qs.l] # Id

IsPowerOfTwo(c) == \E e \in 0..c : Pow2(e) = c

\* C12: new(n) and from_slice(S) allocate capacity = the smallest power of two
\* >= the requested size (1 for size 0) and a node array of exactly 2 * capacity
\* entries; after from_slice, leaf capacity + i holds S[i] for every i < len(S)
\* (so read(i) = S[i]) and every leaf capacity + i with len(S) <= i < capacity
\* holds the identity.
C12_ConstructionLayout ==
    lastOp.call \in {"new", "from_slice"} =>
        /\ IsPowerOfTwo(n)
        /\ n >= nLogical
        /\ \A c \in 1..(n - 1) : IsPowerOfTwo(c) => c < nLogical
        /\ DOMAIN node = 0..(2 * n - 1)
        /\ lastOp.call = "new" => nLogical = lastOp.args[1]
        /\ lastOp.call = "from_slice" =>
              /\ nLogical = Len(lastOp.args[1])
              /\ \A i \in 0..(nLogical - 1) :
                    /\ node[n + i] = lastOp.args[1][i + 1]
                    /\ Read(i) = Returned(lastOp.args[1][i + 1])
              /\ \A i \in nLogical..(n - 1) : node[n + i] = Id

C12_Witness ==
    /\ lastOp.call = "from_slice"
    /\ Len(lastOp.args[1]) = 3
    /\ n = 4
    /\ \A i \in 1..3 : lastOp.args[1][i] # Id
    /\ lastOp.args[1][1] # lastOp.args[1][2]

PaddingReadsIdentity ==
    \A i \in nLogical..(n - 1) : Read(i) = Returned(Id)

PaddingKeptUnlessWritten ==
    \A i \in nLogical..(n - 1) :
        (Read(i) = Returned(Id) /\ ~(lastOp'.call = "update" /\ lastOp'.args[1] = i))
            => IndexOutcome(node', n', i) = Returned(Id)

\* C13: indexing a tree built from n values at a position i with
\* n <= i < capacity succeeds and returns the identity, as long as no update has
\* written position i: it does so right after construction, and every call
\* other than update(i, _) keeps it so.
C13_PaddingIndexable == PaddingReadsIdentity /\ [][PaddingKeptUnlessWritten]_vars

C13_Witness ==
    /\ lastOp.call = "index"
    /\ nLogical = 3
    /\ lastOp.args = <<3>>
    /\ ~lastOp.panic
    /\ lastOp.ret = <<Id>>
    /\ \A i \in 0..2 : node[n + i] # Id

\* The flat indices from i up to the root.
RECURSIVE PathToRoot(_)
PathToRoot(i) == IF i < 1 THEN {} ELSE {i} \cup PathToRoot(i \div 2)

UpdateFrame ==
    lastOp'.call = "update" =>
        /\ n' = n
        /\ DOMAIN node' = DOMAIN node
        /\ \A j \in DOMAIN node :
              j \notin PathToRoot(n + lastOp'.args[1]) => node'[j] = node[j]
        /\ \A q \in 0..(n - 1) :
              q # lastOp'.args[1] => IndexOutcome(node', n', q) = Read(q)

\* C19: update(index, value) changes at most the leaf capacity + index and its
\* ancestors down to flat index 1; every other entry of the node array and the
\* capacity are unchanged, so read(q) is unchanged for every q # index.
C19_UpdateFrame == [][UpdateFrame]_vars

C19_Witness ==
    /\ UpdateAccepted
    /\ n = 4
    /\ lastOp.args[1] = 1
    /\ node[n + 1] = lastOp.args[2]
    /\ lastOp.args[2] # Id
    /\ node[n] # Id
    /\ node[n + 2] # Id

\* The domain of a direct call: from good inclusive to bad exclusive.
BsDomain ==
    IF bs.good0 > bs.bad0 THEN (bs.bad0 + 1)..bs.good0 ELSE bs.good0..(bs.bad0 - 1)

DirectCallDone == bs.pc = "done" /\ bs.f.kind \in {"ge", "le"}

\* C14: binary_search(bad, good, eps) over integers with bad # good returns
\* good when F is true on the whole domain (good inclusive to bad exclusive),
\* and bad + eps when F is false on the whole domain, for the caller's bad and
\* good and eps defaulting to 1.
C14_AllTrueGoodAllFalseBadPlusEps ==
    DirectCallDone =>
        /\ (\A v \in BsDomain : EvalF(bs.f, v).val) => bs.ret = bs.good0
        /\ (\A v \in BsDomain : ~EvalF(bs.f, v).val) =>
              bs.ret = bs.bad0 + UnwrapOr(bs.eps0, 1)

\* The number of elements of sl that are < x (strict) or <= x.
CountBelow(sl, x, strict) ==
    Cardinality({i \in 1..Len(sl) : IF strict THEN sl[i] < x ELSE sl[i] <= x})

\* C15: for every sorted slice (the empty one included) and every x, bisect_left
\* terminates and returns the number of elements < x, bisect_right the number
\* of elements <= x, and the slice is never indexed outside 0..len-1.
C15_Bisect ==
    (bs.pc # "idle" /\ bs.f.kind \in {"bisect_left", "bisect_right"}) =>
        /\ bs.pc # "panic"
        /\ bs.pc \in {"loop", "done"} => bs.iters <= Len(bs.f.slice) + 1
        /\ bs.pc = "loop" =>
              (-1 <= bs.bad /\ bs.bad < bs.good /\ bs.good <= Len(bs.f.slice))
        /\ bs.pc = "done" =>
              bs.ret = CountBelow(bs.f.slice, bs.f.x, bs.f.kind = "bisect_left")

C15_Witness ==
    /\ bs.pc = "done"
    /\ bs.f.kind = "bisect_right"
    /\ Len(bs.f.slice) = 3
    /\ bs.f.slice[1] < bs.f.slice[2]
    /\ bs.f.slice[2] = bs.f.slice[3]
    /\ bs.f.x = bs.f.slice[2]
    /\ bs.ret = 3
    /\ bs.iters >= 2

Elems == 0..(dsu.n - 1)
Smallest(S) == CHOOSE e \in S : \A d \in S : e <= d

\* C16: after any sequence of merge calls, leader(a) returns the smallest
\* element number of the set that contains a.
C16_LeaderIsSmallest ==
    \A a \in Elems : LeaderRun(dsu.p, dsu.n, a).ret = Smallest(dsu.comp[a])

\* C17: same(a, b) is true exactly when a and b are connected through the merge
\* calls made so far, size(a) is the number of elements connected to a, and the
\* value returned by merge(a, b) is leader(a) and leader(b) afterwards.
C17_TracksPartition ==
    /\ \A a \in Elems, b \in Elems :
          SameOutcome(dsu.p, dsu.n, a, b) =
              [panic |-> FALSE, p |-> SameOutcome(dsu.p, dsu.n, a, b).p,
               ret |-> b \in dsu.comp[a]]
    /\ \A a \in Elems :
          /\ ~SizeOutcome(dsu.p, dsu.n, a).panic
          /\ SizeOutcome(dsu.p, dsu.n, a).ret = Cardinality(dsu.comp[a])
    /\ (dsu.last.call = "merge" /\ ~dsu.last.panic) =>
          /\ dsu.last.ret = LeaderRun(dsu.p, dsu.n, dsu.last.args[1]).ret
          /\ dsu.last.ret = LeaderRun(dsu.p, dsu.n, dsu.last.args[2]).ret

C17_Witness ==
    /\ dsu.last.call = "merge"
    /\ ~dsu.last.panic
    /\ dsu.last.args[1] # dsu.last.args[2]
    /\ Cardinality(dsu.comp[dsu.last.args[1]]) = 3
    /\ dsu.last.ret # dsu.last.args[1]
    /\ \E e \in Elems : dsu.comp[e] = {e}

RECURSIVE SumOfCounts(_, _)
SumOfCounts(m, k) == IF k < 0 THEN 0 ELSE MsCount(m, k) + SumOfCounts(m, k - 1)

MsConsistent ==
    /\ ms.len = SumOfCounts(ms.multi_set, MaxVal)
    /\ \A e \in DOMAIN ms.multi_set : ms.multi_set[e] # 0
    /\ \A e \in MsKeys : MsContains(ms.multi_set, e) <=> MsCount(ms.multi_set, e) > 0
    /\ MsIsEmpty(ms.multi_set) <=> ms.len = 0

RemoveEffect ==
    ms'.last.call = "remove" =>
        LET e == ms'.last.args[1]
        IN  IF MsCount(ms.multi_set, e) > 0
            THEN /\ ms'.last.ret = <<TRUE>>
                 /\ MsCount(ms'.multi_set, e) = MsCount(ms.multi_set, e) - 1
                 /\ ms'.len = ms.len - 1
                 /\ \A k \in MsKeys \ {e} :
                       MsCount(ms'.multi_set, k) = MsCount(ms.multi_set, k)
            ELSE /\ ms'.last.ret = <<FALSE>>
                 /\ ms'.len = ms.len
                 /\ ms'.multi_set = ms.multi_set

\* C18: after any sequence of insert, remove, pop_first, pop_last and clear,
\* len() is the sum of count(e) over all e, no stored element has count 0
\* (contains(e) iff count(e) > 0, is_empty() iff len() == 0), and remove(e)
\* returns true and decrements count(e) and len() by one exactly when e was
\* present, otherwise returns false and changes nothing.
C18_MultiSetCounts == [](MsConsistent) /\ [][RemoveEffect]_vars

C18_Witness ==
    /\ ms.last.call = "remove"
    /\ ms.last.ret = <<TRUE>>
    /\ ~MsContains(ms.multi_set, ms.last.args[1])
    /\ ms.len = 2
    /\ Cardinality(DOMAIN ms.multi_set) = 1

(***************************************************************************)
(* One update interleaved with one query (SpecRace).                       *)
(***************************************************************************)

\* node before the update and node after the whole of it.
UpdateSeen == us.pc \in {"walk", "done"}

NodeBefore == IF UpdateSeen THEN us.before ELSE node

NodeAfter ==
    IF UpdateSeen
    THEN UpdateOutcome(us.before, n, opKind, us.index, us.value).node
    ELSE node

\* The value of the query's range on the tree nd.
RangeValue(nd) == QueryOutcome(nd, n, opKind, Some(qs.lo), Some(qs.hi)).ret

\* An internal node differs from op of its children only while the update is
\* walking, and only at an ancestor of the leaf it has not yet recomputed.
BrokenOnlyAboveWalk ==
    \A j \in 1..(n - 1) :
        node[j] # Operation(opKind, node[2 * j], node[2 * j + 1]) =>
            /\ us.pc = "walk"
            /\ j < us.i
            /\ j \in PathToRoot(us.index + n)

\* The query returns the value of its range before the update or after it.
StaleOrFresh ==
    qs.pc = "done" => qs.ret \in {RangeValue(NodeBefore), RangeValue(NodeAfter)}

\* Every value a query with locals s (atRight: between the two branches of an
\* iteration) can return when its remaining steps and those of the update u are
\* taken in any order.
RECURSIVE RaceResults(_, _, _, _, _)
RaceResults(nd, k, u, s, atRight) ==
    LET upd == IF u.pc = "idle"
               THEN RaceResults([nd EXCEPT ![u.i] = u.x], k,
                                [u EXCEPT !.pc = "walk"], s, atRight)
               ELSE IF u.i > 1
               THEN LET w == WalkStep(nd, k, u.i)
                    IN  RaceResults(w.node, k, [u EXCEPT !.i = w.i], s, atRight)
               ELSE {}
        qry == IF atRight
               THEN RaceResults(nd, k, u, QueryRight(nd, k, s), FALSE)
               ELSE IF s.l < s.r
               THEN RaceResults(nd, k, u, QueryLeft(nd, k, s), TRUE)
               ELSE {<<Operation(k, s.res_l, s.res_r)>>}
    IN  upd \cup qry

\* The trees over sequences that from_slice builds.
RaceTrees ==
    {FromSlice(slice, "concat") :
        slice \in UNION {SeqsOfLen(Values("concat"), size) : size \in 0..MaxN}}

\* C22 as stated: the steps of one update interleaved with a query reach a state
\* in which the heap invariant is violated, and a query run against such states
\* can return a result that is neither the value of its range before the update
\* nor the value after it.  (Stated of every tree, update, query and order of
\* their steps, from the state in which neither has started.)
C22_TornResultPossible ==
    (qs = Idle /\ us = Idle) =>
        \E t \in RaceTrees :
            \E i \in 0..(t.n - 1), x \in Values("concat") :
                LET written == [t.node EXCEPT ![i + t.n] = x]
                    after == UpdateOutcome(t.node, t.n, "concat", i, x).node
                IN  /\ ~HeapHolds(written, t.n, "concat")
                    /\ \E lo \in 0..t.n, hi \in 0..t.n :
                          /\ lo <= hi
                          /\ RaceResults(t.node, "concat",
                                         [pc |-> "idle", i |-> i + t.n, x |-> x],
                                         [l |-> lo + t.n, r |-> hi + t.n,
                                          res_l |-> <<>>, res_r |-> <<>>], FALSE)
                             \ {QueryOutcome(t.node, t.n, "concat", Some(lo), Some(hi)).ret,
                                QueryOutcome(after, t.n, "concat", Some(lo), Some(hi)).ret}
                             # {}

\* C22 as amended: between the update's write of the leaf and its last step the
\* heap invariant is violated, at ancestors of the leaf not yet recomputed and
\* nowhere else; a query whose steps are interleaved with those of the update
\* returns the value of its range before the update or the value after it,
\* never a third value.
C22_StaleNotTorn == BrokenOnlyAboveWalk /\ StaleOrFresh

C22_Witness ==
    /\ qs.pc = "done"
    /\ qs.broken
    /\ us.pc = "walk"
    /\ ~HeapHolds(node, n, opKind)
    /\ qs.ret = RangeValue(NodeBefore)
    /\ RangeValue(NodeBefore) # RangeValue(NodeAfter)

C22_FreshWitness ==
    /\ qs.pc = "done"
    /\ qs.broken
    /\ us.pc = "done"
    /\ qs.ret = RangeValue(NodeAfter)
    /\ RangeValue(NodeBefore) # RangeValue(NodeAfter)

====
